---- MODULE Spec2Model ----
(***************************************************************************)
(* The house-price dashboard of src/app.py as a state machine.  The       *)
(* script is re-executed from its first line on every user interaction:   *)
(* one run is Load, Sidebar, ApplyFilters, EmptyGuard and then the chart, *)
(* aggregation and KPI sections in source order.  What survives from one  *)
(* run to the next is the st.cache_data store and the widgets' values;    *)
(* every script variable is rebuilt.                                      *)
(*                                                                         *)
(* Dates are calendar days written yyyymmdd (20210105), so that date      *)
(* order is integer order.  Prices are integers; means are exact          *)
(* fractions, with the float values inf and nan where a division by zero  *)
(* produces them.  Row positions are 1-based.                             *)
(***************************************************************************)
EXTENDS Integers, Sequences, FiniteSets, TLC

\* Largest number of rows of the source file.
MaxRows == 3

VARIABLES
    file,          \* rows of ./house_prices_1000_extended.csv
    fileReads,     \* how often pd.read_csv has run in this process
    cache,         \* st.cache_data store of load_data: << >> or << Dataset >>
    widgets,       \* sidebar widget values kept by the session: << >> or << selection >>
    pc,            \* the section of the script the current run is at
    df,            \* script variable df
    sel,           \* locations, house_types, bedrooms, date_range of this run
    filtered_df,   \* script variable filtered_df
    monthly_avg,   \* script variable monthly_avg
    avg_type,      \* script variable avg_type
    yearly_avg,    \* script variable yearly_avg
    kpi,           \* the three values handed to c1/c2/c3.metric
    rendered,      \* the elements this run has put on the page, in order
    failed,        \* the section whose exception ended this run, or "none"
    remembered     \* history: << >> or << an earlier run's selection and results >>

vars == << file, fileReads, cache, widgets, pc, df, sel, filtered_df,
           monthly_avg, avg_type, yearly_avg, kpi, rendered, failed, remembered >>

(***************************************************************************)
(* The source file                                                         *)
(***************************************************************************)
Rec(l, t, b, p, d) ==
    [location |-> l, house_type |-> t, bedrooms |-> b, price |-> p, date |-> d]

\* The rows a source file is made of.
SampleRecords ==
    { Rec("A", "Flat",  2, 100, 20210105),
      Rec("B", "Villa", 3, 200, 20220310),
      Rec("A", "Flat",  2, 300, 20230720),
      Rec("A", "Flat",  3, 0,   20210120),
      Rec("A", "Villa", 2, 0,   20221105) }

Datasets == UNION { [1..n -> SampleRecords] : n \in 1..MaxRows }

(***************************************************************************)
(* Arithmetic on float values that are exact fractions, inf or nan         *)
(***************************************************************************)
Abs(x) == IF x < 0 THEN -x ELSE x

RECURSIVE GCD(_, _)
GCD(a, b) == IF b = 0 THEN a ELSE GCD(b, a % b)

NaN == [kind |-> "nan", n |-> 0, d |-> 0]
Inf == [kind |-> "inf", n |-> 1, d |-> 0]

\* The fraction n/d (d > 0) in lowest terms.
Num(n, d) ==
    LET g == GCD(Abs(n), d)
    IN  [kind |-> "num", n |-> n \div g, d |-> d \div g]

\* a / b on non-negative floats: x/0 is inf, 0/0 is nan.
FDiv(a, b) ==
    IF a.kind # "num" \/ b.kind # "num" THEN NaN
    ELSE IF b.n = 0 THEN (IF a.n = 0 THEN NaN ELSE Inf)
    ELSE Num(a.n * b.d, a.d * b.n)

\* a - k for an integer k.
FSubInt(a, k) ==
    IF a.kind # "num" THEN a ELSE Num(a.n - k * a.d, a.d)

\* a * k for a positive integer k.
FMulInt(a, k) ==
    IF a.kind # "num" THEN a ELSE Num(a.n * k, a.d)

RECURSIVE SumSeq(_)
SumSeq(s) == IF s = << >> THEN 0 ELSE Head(s) + SumSeq(Tail(s))

Prices(frame) == [i \in 1..Len(frame) |-> frame[i].price]

\* Series.mean(): nan on an empty series.
Mean(frame) ==
    IF frame = << >> THEN NaN ELSE Num(SumSeq(Prices(frame)), Len(frame))

\* Series.max() and Series.min() of the price column.
MaxPrice(frame) ==
    CHOOSE p \in {frame[i].price : i \in 1..Len(frame)} :
        \A i \in 1..Len(frame) : frame[i].price <= p
MinPrice(frame) ==
    CHOOSE p \in {frame[i].price : i \in 1..Len(frame)} :
        \A i \in 1..Len(frame) : p <= frame[i].price

\* int(x) of a non-negative float: truncation.
IntOf(x) == x.n \div x.d

\* The elements of a set of integers as an ascending sequence.
RECURSIVE SortedSeq(_)
SortedSeq(S) ==
    IF S = {} THEN << >>
    ELSE LET m == CHOOSE x \in S : \A y \in S : x <= y
         IN  << m >> \o SortedSeq(S \ {m})

(***************************************************************************)
(* Loader                                                                  *)
(***************************************************************************)
\* Variant: load_data without the cache decorator.
load_data_uncached(store, disk, reads) ==
    [cache |-> store, df |-> disk, reads |-> reads + 1]

\* @st.cache_data load_data(): the file is read when the store holds nothing.
load_data(store, disk, reads) ==
    IF store = << >>
    THEN [cache |-> << disk >>, df |-> disk, reads |-> reads + 1]
    ELSE [cache |-> store, df |-> store[1], reads |-> reads]

(***************************************************************************)
(* Sidebar                                                                 *)
(***************************************************************************)
UniqueLocations(frame)  == {frame[i].location : i \in 1..Len(frame)}
UniqueHouseTypes(frame) == {frame[i].house_type : i \in 1..Len(frame)}
UniqueBedrooms(frame)   == {frame[i].bedrooms : i \in 1..Len(frame)}
DateMin(frame) ==
    CHOOSE d \in {frame[i].date : i \in 1..Len(frame)} :
        \A i \in 1..Len(frame) : d <= frame[i].date
DateMax(frame) ==
    CHOOSE d \in {frame[i].date : i \in 1..Len(frame)} :
        \A i \in 1..Len(frame) : frame[i].date <= d

\* The default= arguments of the four widgets.
Defaults(frame) ==
    [locations   |-> UniqueLocations(frame),
     house_types |-> UniqueHouseTypes(frame),
     bedrooms    |-> UniqueBedrooms(frame),
     date_range  |-> << DateMin(frame), DateMax(frame) >>]

\* The days the user picks in the date picker: of all days, the earliest and
\* the latest of the Dataset, in either order.
PickerDates(frame) == {DateMin(frame), DateMax(frame)}

(***************************************************************************)
(* Filter engine                                                           *)
(***************************************************************************)
\* Variant: the bedrooms condition is missing from the mask.
FilterMaskNoBedrooms(frame, s, i) ==
    /\ frame[i].location \in s.locations
    /\ frame[i].house_type \in s.house_types
    /\ frame[i].date >= s.date_range[1]
    /\ frame[i].date <= s.date_range[2]

\* Variant: the end of the interval is compared with < .
FilterMaskOpenEnd(frame, s, i) ==
    /\ frame[i].location \in s.locations
    /\ frame[i].house_type \in s.house_types
    /\ frame[i].bedrooms \in s.bedrooms
    /\ frame[i].date >= s.date_range[1]
    /\ frame[i].date < s.date_range[2]

\* Variant: the two date conditions are joined with | .
FilterMaskEitherBound(frame, s, i) ==
    /\ frame[i].location \in s.locations
    /\ frame[i].house_type \in s.house_types
    /\ frame[i].bedrooms \in s.bedrooms
    /\ \/ frame[i].date >= s.date_range[1]
       \/ frame[i].date <= s.date_range[2]

\* The boolean mask of lines 61-65 at row i.
FilterMask(frame, s, i) ==
    /\ frame[i].location \in s.locations
    /\ frame[i].house_type \in s.house_types
    /\ frame[i].bedrooms \in s.bedrooms
    /\ frame[i].date >= s.date_range[1]
    /\ frame[i].date <= s.date_range[2]

Row(frame, i) ==
    [index |-> i, location |-> frame[i].location, house_type |-> frame[i].house_type,
     bedrooms |-> frame[i].bedrooms, price |-> frame[i].price, date |-> frame[i].date]

\* df[mask].copy(): the rows whose mask is true, with their index, in df's order.
RECURSIVE BoolIndex(_, _, _)
BoolIndex(frame, s, i) ==
    IF i > Len(frame) THEN << >>
    ELSE (IF FilterMask(frame, s, i) THEN << Row(frame, i) >> ELSE << >>)
         \o BoolIndex(frame, s, i + 1)

ApplyFilters(frame, s) == BoolIndex(frame, s, 1)

\* Variant: the guard tests for a missing frame, which df[...] never gives.
IsEmptyIsNone(frame) == FALSE

\* DataFrame.empty
IsEmpty(frame) == Len(frame) = 0

(***************************************************************************)
(* Aggregators                                                             *)
(***************************************************************************)
\* Variant: the period is the year ("Y") instead of the month.
YearMonthOfYear(d) == d \div 10000

\* date.dt.to_period("M").astype(str): "2021-01" is written 202101.
YearMonth(d) == d \div 100

\* date.dt.year
Year(d) == d \div 10000

\* filtered_df["year_month"] = ...
WithYearMonth(frame) ==
    [i \in 1..Len(frame) |->
        [index |-> frame[i].index, location |-> frame[i].location,
         house_type |-> frame[i].house_type, bedrooms |-> frame[i].bedrooms,
         price |-> frame[i].price, date |-> frame[i].date,
         year_month |-> YearMonth(frame[i].date)]]

\* filtered_df["year"] = ...
WithYear(frame) ==
    [i \in 1..Len(frame) |->
        [index |-> frame[i].index, location |-> frame[i].location,
         house_type |-> frame[i].house_type, bedrooms |-> frame[i].bedrooms,
         price |-> frame[i].price, date |-> frame[i].date,
         year_month |-> frame[i].year_month,
         year |-> Year(frame[i].date)]]

MonthlyGroup(frame, ym, loc) ==
    SelectSeq(frame, LAMBDA r : r.year_month = ym /\ r.location = loc)

\* groupby(["year_month", "location"], as_index=False)["price"].mean()
MonthlyAvg(frame) ==
    { [year_month |-> k[1], location |-> k[2],
       price |-> Mean(MonthlyGroup(frame, k[1], k[2]))] :
      k \in { << frame[i].year_month, frame[i].location >> : i \in 1..Len(frame) } }

TypeGroup(frame, t) == SelectSeq(frame, LAMBDA r : r.house_type = t)

\* groupby("house_type", as_index=False)["price"].mean()
AvgType(frame) ==
    { [house_type |-> t, price |-> Mean(TypeGroup(frame, t))] :
      t \in { frame[i].house_type : i \in 1..Len(frame) } }

YearGroup(frame, y) == SelectSeq(frame, LAMBDA r : r.year = y)

\* groupby("year", as_index=False)["price"].mean().sort_values("year")
YearlyMean(frame) ==
    LET years == SortedSeq({ frame[i].year : i \in 1..Len(frame) })
    IN  [i \in 1..Len(years) |->
            [year |-> years[i], price |-> Mean(YearGroup(frame, years[i]))]]

\* Variant: the change is taken from the first row, not the preceding one.
PctChangeFromFirst(col, i) ==
    IF i = 1 THEN NaN ELSE FSubInt(FDiv(col[i], col[1]), 1)

\* Series.pct_change() at row i: x[i] / x[i-1] - 1, nan in the first row.
PctChange(col, i) ==
    IF i = 1 THEN NaN ELSE FSubInt(FDiv(col[i], col[i - 1]), 1)

\* yearly_avg["growth_percent"] = yearly_avg["price"].pct_change() * 100
WithGrowth(table) ==
    LET col == [i \in 1..Len(table) |-> table[i].price]
    IN  [i \in 1..Len(table) |->
            [year |-> table[i].year, price |-> table[i].price,
             growth_percent |-> FMulInt(PctChange(col, i), 100)]]

\* DataFrame.dropna(): the rows without a nan.
DropNa(table) ==
    SelectSeq(table, LAMBDA r : r.price.kind # "nan" /\ r.growth_percent.kind # "nan")

YearlyAvg(frame) == DropNa(WithGrowth(YearlyMean(frame)))

\* Variant: the average is taken over df instead of filtered_df.
KpiAverageOfDataset(frame) ==
    [average |-> IntOf(Mean(df)),
     maximum |-> MaxPrice(frame),
     minimum |-> MinPrice(frame)]

\* int(price.mean()), int(price.max()), int(price.min())
Kpi(frame) ==
    [average |-> IntOf(Mean(frame)),
     maximum |-> MaxPrice(frame),
     minimum |-> MinPrice(frame)]

(***************************************************************************)
(* One run of the script                                                   *)
(***************************************************************************)
NoSel == [locations |-> {}, house_types |-> {}, bedrooms |-> {}, date_range |-> << >>]
NoKpi == [average |-> 0, maximum |-> 0, minimum |-> 0]

\* The sections in which an aggregation is computed and rendered.
AggSections == {"monthly", "avg_type", "box", "yearly", "kpi"}

Init ==
    /\ file \in Datasets
    /\ fileReads = 0
    /\ cache = << >>
    /\ widgets = << >>
    /\ pc = "load"
    /\ df = << >>
    /\ sel = NoSel
    /\ filtered_df = << >>
    /\ monthly_avg = {}
    /\ avg_type = {}
    /\ yearly_avg = << >>
    /\ kpi = NoKpi
    /\ rendered = << >>
    /\ failed = "none"
    /\ remembered = << >>

\* df = load_data()
Load ==
    /\ pc = "load"
    /\ LET r == load_data(cache, file, fileReads)
       IN  /\ cache' = r.cache
           /\ df' = r.df
           /\ fileReads' = r.reads
    /\ pc' = "sidebar"
    /\ UNCHANGED << file, widgets, sel, filtered_df, monthly_avg, avg_type,
                    yearly_avg, kpi, rendered, failed, remembered >>

\* The four sidebar widgets: the defaults on the session's first run, the
\* values the user left them at afterwards.
Sidebar ==
    /\ pc = "sidebar"
    /\ widgets' = IF widgets = << >> THEN << Defaults(df) >> ELSE widgets
    /\ sel' = widgets'[1]
    /\ pc' = "filter"
    /\ UNCHANGED << file, fileReads, cache, df, filtered_df, monthly_avg,
                    avg_type, yearly_avg, kpi, rendered, failed, remembered >>

\* filtered_df = df[...].copy()
Filter ==
    /\ pc = "filter"
    /\ filtered_df' = ApplyFilters(df, sel)
    /\ pc' = "guard"
    /\ UNCHANGED << file, fileReads, cache, widgets, df, sel, monthly_avg,
                    avg_type, yearly_avg, kpi, rendered, failed, remembered >>

\* if filtered_df.empty: st.warning(...); st.stop()
EmptyGuard ==
    /\ pc = "guard"
    /\ IF IsEmpty(filtered_df)
       THEN /\ rendered' = Append(rendered, "warning")
            /\ pc' = "stopped"
       ELSE /\ rendered' = rendered
            /\ pc' = "trend"
    /\ UNCHANGED << file, fileReads, cache, widgets, df, sel, filtered_df,
                    monthly_avg, avg_type, yearly_avg, kpi, failed, remembered >>

\* Price trend over time: px.line(filtered_df, ...)
PriceTrend ==
    /\ pc = "trend"
    /\ rendered' = Append(rendered, "trend")
    /\ pc' = "monthly"
    /\ UNCHANGED << file, fileReads, cache, widgets, df, sel, filtered_df,
                    monthly_avg, avg_type, yearly_avg, kpi, failed, remembered >>

\* Month-wise average price by location
Monthly ==
    /\ pc = "monthly"
    /\ filtered_df' = WithYearMonth(filtered_df)
    /\ monthly_avg' = MonthlyAvg(filtered_df')
    /\ rendered' = Append(rendered, "monthly")
    /\ pc' = "avg_type"
    /\ UNCHANGED << file, fileReads, cache, widgets, df, sel, avg_type,
                    yearly_avg, kpi, failed, remembered >>

\* Average price by house type
AvgTypeChart ==
    /\ pc = "avg_type"
    /\ avg_type' = AvgType(filtered_df)
    /\ rendered' = Append(rendered, "avg_type")
    /\ pc' = "box"
    /\ UNCHANGED << file, fileReads, cache, widgets, df, sel, filtered_df,
                    monthly_avg, yearly_avg, kpi, failed, remembered >>

\* Price distribution by bedrooms: px.box(filtered_df, ...)
BoxPlot ==
    /\ pc = "box"
    /\ rendered' = Append(rendered, "box")
    /\ pc' = "yearly"
    /\ UNCHANGED << file, fileReads, cache, widgets, df, sel, filtered_df,
                    monthly_avg, avg_type, yearly_avg, kpi, failed, remembered >>

\* Year-wise price growth
Yearly ==
    /\ pc = "yearly"
    /\ filtered_df' = WithYear(filtered_df)
    /\ yearly_avg' = YearlyAvg(filtered_df')
    /\ rendered' = Append(rendered, "yearly")
    /\ pc' = "kpi"
    /\ UNCHANGED << file, fileReads, cache, widgets, df, sel, monthly_avg,
                    avg_type, kpi, failed, remembered >>

\* Key metrics
KpiMetrics ==
    /\ pc = "kpi"
    /\ kpi' = Kpi(filtered_df)
    /\ rendered' = Append(rendered, "kpi")
    /\ pc' = "table"
    /\ UNCHANGED << file, fileReads, cache, widgets, df, sel, filtered_df,
                    monthly_avg, avg_type, yearly_avg, failed, remembered >>

\* st.dataframe(filtered_df)
DataTable ==
    /\ pc = "table"
    /\ rendered' = Append(rendered, "table")
    /\ pc' = "done"
    /\ UNCHANGED << file, fileReads, cache, widgets, df, sel, filtered_df,
                    monthly_avg, avg_type, yearly_avg, kpi, failed, remembered >>

\* A call of an aggregation section raises: no statement of the script
\* catches it, so the run ends at that line.
Raise ==
    /\ pc \in AggSections
    /\ failed' = pc
    /\ pc' = "error"
    /\ UNCHANGED << file, fileReads, cache, widgets, df, sel, filtered_df,
                    monthly_avg, avg_type, yearly_avg, kpi, rendered, remembered >>

\* The values one widget can be set to.
WidgetValues(frame, w) ==
    CASE w = "locations"   -> SUBSET UniqueLocations(frame)
      [] w = "house_types" -> SUBSET UniqueHouseTypes(frame)
      [] w = "bedrooms"    -> SUBSET UniqueBedrooms(frame)
      [] w = "date_range"  -> PickerDates(frame) \X PickerDates(frame)

\* History: once a run is remembered, note that the widgets have since held
\* another selection than the remembered one.
Track(h, s) ==
    IF h = << >> \/ s = h[1].sel THEN h
    ELSE << [h[1] EXCEPT !.intervening = TRUE] >>

\* The user changes one widget; the script starts again from its first line
\* with no script variable of the last run left.
Interact ==
    /\ pc \in {"done", "stopped", "error"}
    /\ \E w \in {"locations", "house_types", "bedrooms", "date_range"} :
         \E v \in WidgetValues(df, w) :
            /\ widgets' = << [widgets[1] EXCEPT ![w] = v] >>
            /\ remembered' = Track(remembered, widgets'[1])
    /\ pc' = "load"
    /\ df' = << >>
    /\ sel' = NoSel
    /\ filtered_df' = << >>
    /\ monthly_avg' = {}
    /\ avg_type' = {}
    /\ yearly_avg' = << >>
    /\ kpi' = NoKpi
    /\ rendered' = << >>
    /\ failed' = "none"
    /\ UNCHANGED << file, fileReads, cache >>

\* Outside the program: the file on disk is replaced after it has been read
\* (here by one without its first row).
FileRewritten ==
    /\ fileReads >= 1
    /\ Len(file) > 1
    /\ file' = Tail(file)
    /\ UNCHANGED << fileReads, cache, widgets, pc, df, sel, filtered_df, monthly_avg,
                    avg_type, yearly_avg, kpi, rendered, failed, remembered >>

Next ==
    \/ Load
    \/ Sidebar
    \/ Filter
    \/ EmptyGuard
    \/ PriceTrend
    \/ Monthly
    \/ AvgTypeChart
    \/ BoxPlot
    \/ Yearly
    \/ KpiMetrics
    \/ DataTable
    \/ Raise
    \/ Interact
    \/ FileRewritten

Spec == Init /\ [][Next]_vars

(***************************************************************************)
(* Runs compared across interactions                                       *)
(***************************************************************************)
\* The source files of the history specification.
HistoryDatasets ==
    { << Rec("A", "Flat", 2, 100, 20210105), Rec("A", "Flat", 3, 0, 20210120),
         Rec("A", "Flat", 2, 300, 20230720) >>,
      << Rec("B", "Villa", 3, 200, 20220310), Rec("A", "Villa", 2, 0, 20221105) >>,
      << Rec("A", "Flat", 2, 100, 20210105), Rec("B", "Villa", 3, 200, 20220310),
         Rec("A", "Flat", 2, 300, 20230720) >> }

InitHistory == Init /\ file \in HistoryDatasets

\* History: keep the selection and the results of a run that has ended.
Remember ==
    /\ pc \in {"done", "stopped"}
    /\ remembered = << >>
    /\ remembered' = << [sel |-> sel, filtered_df |-> filtered_df,
                         monthly_avg |-> monthly_avg, avg_type |-> avg_type,
                         yearly_avg |-> yearly_avg, kpi |-> kpi,
                         intervening |-> FALSE] >>
    /\ UNCHANGED << file, fileReads, cache, widgets, pc, df, sel, filtered_df,
                    monthly_avg, avg_type, yearly_avg, kpi, rendered, failed >>

NextHistory == Next \/ Remember

SpecHistory == InitHistory /\ [][NextHistory]_vars

(***************************************************************************)
(* Properties                                                              *)
(***************************************************************************)
InRendered(x) == \E i \in 1..Len(rendered) : rendered[i] = x

\* The run has computed filtered_df.
PastFilter == pc \notin {"load", "sidebar", "filter"}

\* The run has passed the empty-result guard.
PastGuard == pc \notin {"load", "sidebar", "filter", "guard"}

\* Row k of filtered_df is row i of df.
IsRowOf(k, i) ==
    /\ filtered_df[k].index = i
    /\ filtered_df[k].location = df[i].location
    /\ filtered_df[k].house_type = df[i].house_type
    /\ filtered_df[k].bedrooms = df[i].bedrooms
    /\ filtered_df[k].price = df[i].price
    /\ filtered_df[k].date = df[i].date

\* C1: in every run, with whatever selection the widgets hold, every row of
\* filtered_df is a row of the Dataset, no row occurs twice, and row i of the
\* Dataset is in filtered_df exactly if its location, house type and bedroom
\* count are in the selected sets and start <= its date <= end.
C1_FilterMembership ==
    PastFilter =>
        /\ df = cache[1]
        /\ sel = widgets[1]
        /\ \A k \in 1..Len(filtered_df) :
              \E i \in 1..Len(df) : IsRowOf(k, i)
        /\ \A k, l \in 1..Len(filtered_df) :
              filtered_df[k].index = filtered_df[l].index => k = l
        /\ \A i \in 1..Len(df) :
              (\E k \in 1..Len(filtered_df) : filtered_df[k].index = i)
              <=> /\ df[i].location \in sel.locations
                  /\ df[i].house_type \in sel.house_types
                  /\ df[i].bedrooms \in sel.bedrooms
                  /\ sel.date_range[1] <= df[i].date
                  /\ df[i].date <= sel.date_range[2]

\* C1 witness: a later run whose selection keeps some rows and leaves out
\* a row for its bedroom count alone.
C1_Witness ==
    /\ pc = "done"
    /\ sel # Defaults(df)
    /\ Len(filtered_df) >= 1
    /\ \E i \in 1..Len(df) :
          /\ df[i].bedrooms \notin sel.bedrooms
          /\ df[i].location \in sel.locations
          /\ df[i].house_type \in sel.house_types
          /\ sel.date_range[1] <= df[i].date
          /\ df[i].date <= sel.date_range[2]

\* C2: a run whose filtered_df is empty shows the warning and stops with
\* nothing else rendered and no aggregation computed; a run whose filtered_df
\* is not empty shows no warning, does not stop at the guard and enters the
\* chart and aggregation sections, and when it reaches the end of the script
\* all five aggregations and the table are on the page.
C2_EmptyGuard ==
    PastGuard =>
        IF filtered_df = << >>
        THEN /\ pc = "stopped"
             /\ rendered = << "warning" >>
             /\ monthly_avg = {} /\ avg_type = {} /\ yearly_avg = << >>
             /\ kpi = NoKpi
        ELSE /\ pc \in {"trend", "monthly", "avg_type", "box", "yearly", "kpi",
                        "table", "done", "error"}
             /\ ~InRendered("warning")
             /\ pc = "done" =>
                    rendered = << "trend", "monthly", "avg_type", "box",
                                  "yearly", "kpi", "table" >>

\* C2 witness: the user deselects every location of a Dataset and the run
\* stops at the guard.
C2_Witness ==
    /\ pc = "stopped"
    /\ sel.locations = {}
    /\ sel.house_types = UniqueHouseTypes(df)
    /\ sel.bedrooms = UniqueBedrooms(df)
    /\ InRendered("warning")

\* C3: with start > end filtered_df is empty whatever the three sets are,
\* no exception ends the run, and the run stops at the guard with the warning.
C3_ReversedInterval ==
    (PastFilter /\ sel.date_range[1] > sel.date_range[2]) =>
        /\ filtered_df = << >>
        /\ failed = "none"
        /\ pc \in {"guard", "stopped"}
        /\ pc = "stopped" => rendered = << "warning" >>

\* C3 witness: a reversed interval with all locations, house types and
\* bedroom values selected.
C3_Witness ==
    /\ pc = "stopped"
    /\ sel.date_range[1] > sel.date_range[2]
    /\ sel.locations = UniqueLocations(df)
    /\ sel.house_types = UniqueHouseTypes(df)
    /\ sel.bedrooms = UniqueBedrooms(df)

\* C7: when the selection is every location, house type and bedroom value of
\* the Dataset and the interval from its earliest to its latest date,
\* filtered_df holds every row of the Dataset, in the Dataset's order.
C7_DefaultsSelectAll ==
    ( /\ PastFilter
      /\ sel.locations = {df[i].location : i \in 1..Len(df)}
      /\ sel.house_types = {df[i].house_type : i \in 1..Len(df)}
      /\ sel.bedrooms = {df[i].bedrooms : i \in 1..Len(df)}
      /\ \A i \in 1..Len(df) :
            sel.date_range[1] <= df[i].date /\ df[i].date <= sel.date_range[2]
      /\ \E i, j \in 1..Len(df) :
            sel.date_range[1] = df[i].date /\ sel.date_range[2] = df[j].date )
    => /\ Len(filtered_df) = Len(df)
       /\ \A i \in 1..Len(df) : IsRowOf(i, i)

\* C7 witness: the session's first run, over a Dataset of several rows with
\* different dates, has the widgets at their defaults and reaches the end.
C7_Witness ==
    /\ pc = "done"
    /\ sel = Defaults(df)
    /\ Len(df) >= 2
    /\ sel.date_range[1] < sel.date_range[2]
    /\ Len(filtered_df) = Len(df)

\* Years, and the sum and number of prices per year, of filtered_df.
ViewYears == { filtered_df[k].date \div 10000 : k \in 1..Len(filtered_df) }
YearRows(y) == SelectSeq(filtered_df, LAMBDA r : r.date \div 10000 = y)
YearSum(y) == SumSeq(Prices(YearRows(y)))
YearCount(y) == Len(YearRows(y))
HasPrevYear(y) == \E p \in ViewYears : p < y
PrevYear(y) ==
    CHOOSE p \in ViewYears : p < y /\ \A q \in ViewYears : q < y => q <= p

\* g = (mean[y] - mean[prev]) / mean[prev] * 100, mean[prev] # 0.
GrowthIs(g, y) ==
    LET p == PrevYear(y)
    IN  /\ g.kind = "num"
        /\ YearSum(p) # 0
        /\ g.n * YearCount(y) * YearSum(p)
             = g.d * 100 * (YearSum(y) * YearCount(p) - YearSum(p) * YearCount(y))

YearlyYears == { yearly_avg[k].year : k \in 1..Len(yearly_avg) }
YearlyAscending ==
    \A k, l \in 1..Len(yearly_avg) : k < l => yearly_avg[k].year < yearly_avg[l].year

\* C4: the growth table has one entry, in ascending year order, for each
\* year of the view other than the earliest and other than a year whose own
\* mean and whose preceding year's mean are both zero (0/0 is missing and is
\* dropped like the first year); an entry whose preceding mean is not zero
\* is (mean[i] - mean[i-1]) / mean[i-1] * 100, and an entry whose preceding
\* mean is zero is infinite.
C4_YearlyGrowth ==
    InRendered("yearly") =>
        /\ YearlyAscending
        /\ YearlyYears =
              { y \in ViewYears :
                  HasPrevYear(y) /\ ~(YearSum(y) = 0 /\ YearSum(PrevYear(y)) = 0) }
        /\ \A k \in 1..Len(yearly_avg) :
              LET y == yearly_avg[k].year
              IN  IF YearSum(PrevYear(y)) # 0
                  THEN GrowthIs(yearly_avg[k].growth_percent, y)
                  ELSE yearly_avg[k].growth_percent.kind = "inf"

\* C4 as stated: one entry for each year of the view other than the earliest,
\* ascending, each equal to (mean[i] - mean[i-1]) / mean[i-1] * 100.
C4_Original ==
    InRendered("yearly") =>
        /\ YearlyAscending
        /\ YearlyYears = { y \in ViewYears : HasPrevYear(y) }
        /\ \A k \in 1..Len(yearly_avg) :
              GrowthIs(yearly_avg[k].growth_percent, yearly_avg[k].year)

\* C4 witness: prices 100, 200, 300 in 2021, 2022, 2023 give 100 for 2022
\* and 50 for 2023.
C4_Witness ==
    /\ pc = "done"
    /\ Len(yearly_avg) = 2
    /\ yearly_avg[1].year = 2022 /\ yearly_avg[1].growth_percent = Num(100, 1)
    /\ yearly_avg[2].year = 2023 /\ yearly_avg[2].growth_percent = Num(50, 1)

\* C5: the three KPI values are the minimum, the (truncated) arithmetic
\* mean and the maximum of price over the rows of filtered_df, and
\* minimum <= mean <= maximum, before and after truncation.
C5_KpiOrder ==
    InRendered("kpi") =>
        LET n == Len(filtered_df)
            total == SumSeq(Prices(filtered_df))
        IN  /\ n >= 1
            /\ \E k \in 1..n : filtered_df[k].price = kpi.minimum
            /\ \E k \in 1..n : filtered_df[k].price = kpi.maximum
            /\ \A k \in 1..n : /\ kpi.minimum <= filtered_df[k].price
                               /\ filtered_df[k].price <= kpi.maximum
            /\ kpi.average * n <= total /\ total < (kpi.average + 1) * n
            /\ kpi.minimum * n <= total /\ total <= kpi.maximum * n
            /\ kpi.minimum <= kpi.average /\ kpi.average <= kpi.maximum

\* C5 witness: a view with three different KPI values and a mean that is
\* not a whole number.
C5_Witness ==
    /\ pc = "done"
    /\ kpi.minimum < kpi.average /\ kpi.average < kpi.maximum
    /\ kpi.average * Len(filtered_df) # SumSeq(Prices(filtered_df))

\* The rows of filtered_df in the group of an output row of monthly_avg.
GroupSize(g) ==
    Cardinality({ k \in 1..Len(filtered_df) :
                    /\ filtered_df[k].date \div 100 = g.year_month
                    /\ filtered_df[k].location = g.location })

RECURSIVE WeightedSum(_)
WeightedSum(G) ==
    IF G = {} THEN 0
    ELSE LET g == CHOOSE x \in G : TRUE
         IN  (GroupSize(g) * g.price.n) \div g.price.d + WeightedSum(G \ {g})

\* C10: every row of filtered_df is in the group of exactly one output row
\* of monthly_avg, the one with its date's year-month and its location; every
\* output row has at least one row in its group; and the sum over the output
\* rows of group size x group mean is the sum of the prices of filtered_df.
C10_MonthlyPartition ==
    InRendered("monthly") =>
        /\ \A k \in 1..Len(filtered_df) :
              Cardinality({ g \in monthly_avg :
                              /\ g.year_month = filtered_df[k].date \div 100
                              /\ g.location = filtered_df[k].location }) = 1
        /\ \A g \in monthly_avg :
              /\ GroupSize(g) >= 1
              /\ g.price.kind = "num"
              /\ (GroupSize(g) * g.price.n) % g.price.d = 0
        /\ WeightedSum(monthly_avg) = SumSeq(Prices(filtered_df))

\* C10 witness: a view with several groups, one of them with two rows of
\* different prices.
C10_Witness ==
    /\ pc = "done"
    /\ Cardinality(monthly_avg) >= 2
    /\ \E k, l \in 1..Len(filtered_df) :
          /\ filtered_df[k].date \div 100 = filtered_df[l].date \div 100
          /\ filtered_df[k].date # filtered_df[l].date
          /\ filtered_df[k].location = filtered_df[l].location
          /\ filtered_df[k].price # filtered_df[l].price

\* C6: the file is read at most once, on the first load; from then on the
\* store keeps what was read, whatever happens to the file, every run's df is
\* the stored Dataset, and no step of a run changes the store.
C6_LoadedOnce ==
    /\ [](/\ fileReads <= 1
          /\ (cache = << >>) <=> (fileReads = 0)
          /\ df # << >> => (cache # << >> /\ df = cache[1]))
    /\ [][/\ cache # << >> => (cache' = cache /\ fileReads' = fileReads)
          /\ cache' # cache => (fileReads' = fileReads + 1 /\ cache' = << file >>)]_vars

\* C6 witness: a later run, with widgets the user has changed, ends with the
\* Dataset of the first load although the file on disk has changed.
C6_Witness ==
    /\ pc = "done"
    /\ fileReads = 1
    /\ sel # Defaults(df)
    /\ file # cache[1]
    /\ df = cache[1]

\* C8: when an aggregation section fails, the other four aggregations are
\* still computed and rendered in that run.
C8_FailureIsolation ==
    pc = "error" => \A a \in AggSections \ {failed} : InRendered(a)

\* C9: a run that ends with the selection of a remembered earlier run has
\* the same filtered_df and the same aggregation results as that run.
C9_SameSelectionSameResults ==
    (pc \in {"done", "stopped"} /\ remembered # << >> /\ remembered[1].sel = sel) =>
        /\ filtered_df = remembered[1].filtered_df
        /\ monthly_avg = remembered[1].monthly_avg
        /\ avg_type = remembered[1].avg_type
        /\ yearly_avg = remembered[1].yearly_avg
        /\ kpi = remembered[1].kpi

\* C9 witness: a run ends with the remembered selection after the widgets
\* held another selection in between and the file on disk changed.
C9_Witness ==
    /\ pc = "done"
    /\ remembered # << >>
    /\ remembered[1].intervening
    /\ remembered[1].sel = sel
    /\ Len(filtered_df) < Len(df)
    /\ file # cache[1]

====
